---- MODULE Spec2Model ----
(***************************************************************************)
(* Model of era_5g_interface.channels.Channels and                         *)
(* era_5g_interface.client_channels.ClientChannels: the send pipeline      *)
(* (send_image, send_data, back pressure), the receive pipeline            *)
(* (image_decode, data_lz4_decode) and the client dispatch handlers.       *)
(* The socketio transport, the H.264 codec classes, cv2 and lz4 are the    *)
(* environment: their observable behaviour is drawn from small sets.       *)
(***************************************************************************)
EXTENDS Integers, Sequences, FiniteSets, TLC

\* ------------------------------------------------------------------ bounds
\* Timestamps of received envelopes range over 0..MaxTs.
MaxTs == 1
\* The transport's outbound queue holds 0..MaxQueue packets.
MaxQueue == 2
\* back_pressure_size is None or one of 1..MaxBackPressure.
MaxBackPressure == 1
\* recreate_h264_attempts_count ranges over 1..MaxRecreate.
MaxRecreate == 1
\* At most MaxCodecs encoder/decoder instances are registered in one run.
MaxCodecs == 2
\* A blocked send_data sleeps at most MaxSleeps times in one call.
MaxSleeps == 2

\* ------------------------------------------------------- program constants
\* Optional[int] = None for back_pressure_size.
NONE == -1
\* H264Decoder.last_timestamp and the init counters right after construction.
InitialTimestamp == 0
InitialInitCount == 0

DATA_ERROR_EVENT == "data_error"

ChannelType == {"JSON", "JPEG", "H264", "JSON_LZ4"}

\* The events declared in callbacks_info: event -> (type, error_event).
\* cam2 declares a custom error event, the others keep the default.
callbacks_info ==
  [cam1 |-> [type |-> "H264", error_event |-> DATA_ERROR_EVENT],
   cam2 |-> [type |-> "H264", error_event |-> "cam2_error"],
   pic  |-> [type |-> "JPEG", error_event |-> DATA_ERROR_EVENT],
   json |-> [type |-> "JSON", error_event |-> DATA_ERROR_EVENT],
   lz4  |-> [type |-> "JSON_LZ4", error_event |-> DATA_ERROR_EVENT]]

\* Frame geometries: two valid ones, and one the codec constructor rejects.
Geometries == {"640x480", "320x240", "0x0"}
\* The (frame.shape, encoding_options) pairs send_image is called with;
\* "default" is encoding_options=None.
FrameArgs == {<<"640x480", "default">>, <<"320x240", "custom">>,
              <<"0x0", "default">>}

\* The envelopes image_decode receives on an event, with the geometries
\* H.264 ones carry.  has_timestamp, frame "absent" and geometry "absent"
\* stand for the keys missing from the dictionary; a "bad" frame is one the
\* codec raises on.  Only H.264 envelopes carry width and height.
Envelopes(event, geometries) ==
  LET gs == IF callbacks_info[event].type = "H264"
            THEN geometries \cup {"absent"} ELSE {"absent"}
  IN [has_timestamp : {TRUE}, timestamp : 0..MaxTs,
      frame : {"absent", "good", "bad"}, geometry : gs]
     \cup
     [has_timestamp : {FALSE}, timestamp : {0},
      frame : {"absent", "good", "bad"},
      geometry : gs \ {"320x240", "0x0"}]

\* Namespace sids a server-side caller can pass; NoSid is sid=None.
NoSid == "None"
PeerSid == "s1"

VARIABLES
  sio_is_client,        \* isinstance(self._sio, socketio.Client)
  back_pressure_size,   \* self._back_pressure_size (NONE or >= 1)
  recreate_count,       \* self._recreate_h264_attempts_count
  stats,                \* self._stats
  encoders,             \* self._encoders: StreamKey -> encoder
  decoders,             \* self._decoders: StreamKey -> decoder
  connected,            \* transport: sio.connected / manager.is_connected(sid)
  reconnect_task,       \* transport: sio._reconnect_task: absent, alive, dead
  qsize,                \* transport: eio queue.qsize() of the connection
  running,              \* FALSE once os._exit was called
  pc,                   \* "idle", or "waiting" inside send_data's wait loop
  last,                 \* what the most recent call did
  workers               \* handlers running in parallel threads

config == <<sio_is_client, back_pressure_size, recreate_count, stats>>
transport == <<connected, reconnect_task, qsize>>
vars == <<sio_is_client, back_pressure_size, recreate_count, stats,
          encoders, decoders, connected, reconnect_task, qsize, running,
          pc, last, workers>>

\* ----------------------------------------------------------------- helpers
EmptyMap == [k \in {} |-> 0]

\* Mutant: the registry is replaced by one holding the new entry only.
PutAlone(f, k, v) == [x \in {k} |-> v]

\* f[k] = v on a dictionary.
Put(f, k, v) == [x \in (DOMAIN f) \cup {k} |-> IF x = k THEN v ELSE f[x]]

\* The record describing a call; every call starts from NoCall.
NoCall ==
  [op |-> "none", event |-> "none", channel_type |-> "none",
   timestamp |-> 0, can_be_dropped |-> FALSE, wait_arg |-> FALSE,
   path |-> "none",          \* the branch the call took
   result |-> "none",        \* "none", "record", "raised" or "pending"
   exc |-> "none",           \* the exception raised to the caller
   emits |-> << >>,          \* the transport emits of the call, in order
   sd_called |-> FALSE,      \* send_data was called
   sd_droppable |-> FALSE,   \* its can_be_dropped argument
   sd_wait |-> FALSE,        \* its wait_for_reconnection argument
   sd_event |-> "none",      \* its event argument
   sd_type |-> "none",       \* its channel_type argument
   sd_payload |-> "none",    \* what it sends: data, image or error
   bp_rejected |-> FALSE,    \* the back-pressure check rejected the send
   geometry |-> "none",      \* the frame geometry the call came with
   payload |-> "none",       \* the JSON_LZ4 payload the call came with
   codec_called |-> FALSE,   \* the encoder/decoder processed the frame
   keyframe |-> FALSE,       \* last_frame_is_keyframe()
   reinit |-> 0,             \* encoder_init()/decoder_init() calls
   sized |-> FALSE,          \* a size was appended to _sizes
   cb_called |-> 0,          \* user callback invocations
   cb_raised |-> FALSE,      \* the user callback raised
   sleeps |-> 0]             \* time.sleep(1) calls in the wait loop

\* The threads that run handlers in parallel.
Threads == {"t1", "t2"}

\* A thread that runs no handler.
IdleWorker == [pc |-> "idle", op |-> "none", event |-> "none",
               frame |-> "none", missing |-> FALSE]

\* ------------------------------------------------------------ Init and env
\* The record of the most recent call is kept while the call is blocked and
\* until the environment moves on after it returned.
forget(call) == IF pc = "idle" THEN NoCall ELSE call

\* Channels.__init__, whatever its stats argument.
Constructed ==
  /\ sio_is_client \in BOOLEAN
  /\ back_pressure_size \in {NONE} \cup (1..MaxBackPressure)
  /\ recreate_count \in 1..MaxRecreate
  /\ encoders = EmptyMap
  /\ decoders = EmptyMap
  /\ connected = TRUE
  /\ reconnect_task = "absent"
  /\ qsize = 0
  /\ running = TRUE
  /\ pc = "idle"
  /\ last = NoCall
  /\ workers = [t \in Threads |-> IdleWorker]

\* Channels.__init__ with the default stats=False.
Init == Constructed /\ stats = FALSE

\* The peer goes away; a client may start its reconnection task.
Disconnect ==
  /\ running /\ connected
  /\ connected' = FALSE
  /\ reconnect_task' \in
       IF sio_is_client THEN {reconnect_task, "alive"} ELSE {reconnect_task}
  /\ last' = forget(last)
  /\ UNCHANGED <<config, workers, encoders, decoders, qsize, running, pc>>

\* The connection is (re-)established; a running reconnection task ends.
Connect ==
  /\ running /\ ~connected
  /\ connected' = TRUE
  /\ reconnect_task' = IF reconnect_task = "alive" THEN "dead" ELSE reconnect_task
  /\ last' = forget(last)
  /\ UNCHANGED <<config, workers, encoders, decoders, qsize, running, pc>>

\* The reconnection task gives up while the client is still disconnected.
ReconnectGivesUp ==
  /\ running /\ reconnect_task = "alive"
  /\ reconnect_task' = "dead"
  /\ last' = forget(last)
  /\ UNCHANGED <<config, workers, encoders, decoders, connected, qsize, running,
                 pc>>

\* The transport's writer falls behind: the outbound queue grows.
QueueGrows ==
  /\ running /\ qsize < MaxQueue
  /\ qsize' = qsize + 1
  /\ last' = forget(last)
  /\ UNCHANGED <<config, workers, encoders, decoders, connected, reconnect_task,
                 running, pc>>

\* The transport's writer sends a queued packet.
QueueDrains ==
  /\ running /\ qsize > 0
  /\ qsize' = qsize - 1
  /\ last' = forget(last)
  /\ UNCHANGED <<config, workers, encoders, decoders, connected, reconnect_task,
                 running, pc>>

\* ---------------------------------------------------------------- Channels
\* The sid a caller passes: a client passes none, a server the peer's.
Sids == IF sio_is_client THEN {NoSid} ELSE {PeerSid}

\* The wait_for_reconnection values a caller passes: the argument is read on
\* the client side only, a server-side caller leaves the default.
WaitArgs == IF sio_is_client THEN BOOLEAN ELSE {TRUE}

\* Channels.get_client_eio_sid: the eio sid, or "ValueError".
get_client_eio_sid(sid) ==
  IF sio_is_client THEN "c0"
  ELSE IF sid = NoSid THEN "ValueError" ELSE "e1"

\* Mutant: the limit itself already counts as over the limit.
queue_at_limit(depth, size) == depth >= size

\* The comparison of _apply_back_pressure: queue.qsize() > back_pressure_size.
queue_over_limit(depth, size) == depth > size

\* Mutant: a rejected send is dropped without an exception.
over_limit_dropped == "drop"

\* What _apply_back_pressure does when the queue is over the limit:
\* "raise BackPressureException()", which send_data does not catch.
over_limit_outcome == "BackPressureException"

\* Channels._apply_back_pressure: "ok" or the exception it raises.
apply_back_pressure(sid) ==
  IF back_pressure_size # NONE
  THEN IF sio_is_client
       THEN IF queue_over_limit(qsize, back_pressure_size)
            THEN over_limit_outcome ELSE "ok"
       ELSE IF sid = NoSid THEN "ValueError"
            ELSE IF queue_over_limit(qsize, back_pressure_size)
                 THEN over_limit_outcome ELSE "ok"
  ELSE "ok"

\* The condition of send_data's while loop.
not_connected == ~connected

\* Mutant: a missing reconnection task is not tested for.
reconnect_task_dead == reconnect_task = "dead"

\* The break test inside the loop: no reconnection task, or it is not alive.
reconnect_over == reconnect_task # "alive"

\* Mutant: send_data returns when the wait is abandoned.
after_wait_returns == "return"

\* What send_data does once the wait loop has been left by its break.
after_wait_abandoned == "emit"

\* Mutant: the server side emits without asking manager.is_connected.
send_data_unchecked(channel_type, sid, can_be_dropped, wait_for_reconnection) ==
  IF channel_type \notin {"JSON", "JSON_LZ4"} THEN "UnknownChannelTypeUsed"
  ELSE LET bp == IF can_be_dropped THEN apply_back_pressure(sid) ELSE "ok" IN
       IF bp # "ok" THEN bp
       ELSE IF sio_is_client
            THEN IF wait_for_reconnection /\ not_connected
                 THEN IF reconnect_over THEN after_wait_abandoned ELSE "sleep"
                 ELSE "emit"
            ELSE IF sid = NoSid THEN "ValueError" ELSE "emit"

\* Channels.send_data up to its first blocking point: the exception raised,
\* "emit" when the transport's emit is called, "sleep" when the wait loop
\* reaches time.sleep(1), "return" when it returns without an emit.
send_data_outcome(channel_type, sid, can_be_dropped, wait_for_reconnection) ==
  IF channel_type \notin {"JSON", "JSON_LZ4"} THEN "UnknownChannelTypeUsed"
  ELSE LET bp == IF can_be_dropped THEN apply_back_pressure(sid) ELSE "ok" IN
       IF bp # "ok" THEN bp
       ELSE IF sio_is_client
            THEN IF wait_for_reconnection /\ not_connected
                 THEN IF reconnect_over THEN after_wait_abandoned ELSE "sleep"
                 ELSE "emit"
            ELSE IF sid = NoSid THEN "ValueError"
                 ELSE IF ~connected THEN "ConnectionError"
                 ELSE "emit"

\* The call record after send_data(payload, event, channel_type, sid, ...)
\* was called at the end of the call described by `call`.
send_data(call, event, payload, channel_type, sid, can_be_dropped, wait) ==
  LET out == send_data_outcome(channel_type, sid, can_be_dropped, wait)
      c == [call EXCEPT !.sd_called = TRUE, !.sd_droppable = can_be_dropped,
                        !.sd_wait = wait, !.sd_event = event,
                        !.sd_type = channel_type, !.sd_payload = payload]
  IN CASE out = "emit" ->
            [c EXCEPT !.emits = Append(@, [event |-> event, payload |-> payload]),
                      !.result = "none"]
       [] out = "sleep" -> [c EXCEPT !.result = "pending", !.sleeps = 1]
       [] out = "return" -> [c EXCEPT !.result = "none"]
       [] out = "drop" -> [c EXCEPT !.result = "none", !.bp_rejected = TRUE]
       [] out = "BackPressureException" ->
            [c EXCEPT !.result = "raised", !.exc = out, !.bp_rejected = TRUE]
       [] OTHER -> [c EXCEPT !.result = "raised", !.exc = out]

\* The position of the caller after a call that ended as `call`.
next_pc(call) == IF call.result = "pending" THEN "waiting" ELSE "idle"

\* A user calls send_data directly.
SendData ==
  /\ running /\ pc = "idle"
  /\ \E channel_type \in {"JSON", "JSON_LZ4", "H264"}, sid \in Sids,
        can_be_dropped \in BOOLEAN, wait \in WaitArgs :
       /\ last' = send_data(
                    [NoCall EXCEPT !.op = "send_data", !.event = "json",
                                   !.channel_type = channel_type,
                                   !.can_be_dropped = can_be_dropped,
                                   !.wait_arg = wait],
                    "json", IF channel_type = "JSON_LZ4" THEN "lz4" ELSE "json",
                    channel_type, sid, can_be_dropped, wait)
       /\ pc' = next_pc(last')
  /\ UNCHANGED <<config, workers, encoders, decoders, transport, running>>

\* send_data's wait loop after a sleep: the loop condition no longer holds,
\* or the break is taken; send_data goes on after the loop.
WaitEnds ==
  /\ running /\ pc = "waiting"
  /\ ~not_connected \/ reconnect_over
  /\ last' = IF not_connected /\ after_wait_abandoned # "emit"
             THEN [last EXCEPT !.result = "none"]
             ELSE [last EXCEPT
                     !.emits = Append(@, [event |-> last.sd_event,
                                          payload |-> last.sd_payload]),
                     !.result = "none"]
  /\ pc' = "idle"
  /\ UNCHANGED <<config, workers, encoders, decoders, transport, running>>

\* send_data's wait loop after a sleep: still disconnected, the reconnection
\* task still alive: sleep again.
WaitSleeps ==
  /\ running /\ pc = "waiting"
  /\ not_connected /\ ~reconnect_over
  /\ last.sleeps < MaxSleeps
  /\ last' = [last EXCEPT !.sleeps = @ + 1]
  /\ UNCHANGED <<config, workers, encoders, decoders, transport, running, pc>>

\* ------------------------------------------------------------- send_image
\* StreamKey of a call: (eio_sid, event).
stream_key(sid, event) == <<get_client_eio_sid(sid), event>>

\* H264Encoder(width, height, options) / H264Decoder(width, height) raise
\* for a geometry the codec cannot be initialised with.
constructor_fails(geometry) == geometry = "0x0"

\* H264Encoder(frame.shape[1], frame.shape[0], options=encoding_options).
\* serial counts the instances constructed for the key.
new_encoder(key, geometry, options) ==
  [geometry |-> geometry, options |-> options,
   init_count |-> InitialInitCount,
   serial |-> IF key \in DOMAIN encoders THEN encoders[key].serial + 1 ELSE 1]

\* H264Encoder.encoder_init() / H264Decoder.decoder_init(): re-initialise in
\* place; get_init_count() grows by one.
codec_init(codec) == [codec EXCEPT !.init_count = @ + 1]

\* Mutant: the registry is not consulted, every call constructs an encoder.
encoder_always_missing(key) == TRUE

\* "encoder_id not in self._encoders"
encoder_missing(key) == key \notin DOMAIN encoders

\* Mutant: a codec at the ceiling is re-initialised once more.
at_or_below_ceiling(init_count) == init_count <= recreate_count

\* "get_init_count() < self._recreate_h264_attempts_count"
below_ceiling(init_count) == init_count < recreate_count

\* Mutant: the frame size is not recorded.
size_never_recorded == FALSE

\* "if self._stats: self._sizes.append(len(frame_encoded))"
size_recorded == stats

\* Mutant: the caller's can_be_dropped is passed on as it is.
image_keeps_can_be_dropped(can_be_dropped, is_key_frame) == can_be_dropped

\* The can_be_dropped argument send_image gives send_data.
image_can_be_dropped(can_be_dropped, is_key_frame) ==
  can_be_dropped /\ ~is_key_frame

\* The wait_for_reconnection argument send_image gives send_data: it passes
\* none, so send_data's default (True) applies.
image_wait_for_reconnection(wait_for_reconnection) == TRUE

\* Mutant: the handler re-raises after re-initialising the encoder.
encoder_error_reraised(call) ==
  [call EXCEPT !.result = "raised", !.exc = "H264EncoderError"]

\* What the H264EncoderError handler of send_image does after it has
\* re-initialised the encoder: the handler ends, send_image returns None.
encoder_error_recreated(call) == [call EXCEPT !.result = "none"]

\* Channels.send_image.  encodable: the codec accepts the frame;
\* is_key_frame: what last_frame_is_keyframe() answers after encoding it.
\* The result is the new self._encoders and the record of the call.
send_image(geometry, encodable, event, channel_type, sid, can_be_dropped, wait_for_reconnection, encoding_options, is_key_frame) ==
  LET call == [NoCall EXCEPT !.op = "send_image", !.event = event,
                             !.channel_type = channel_type,
                             !.can_be_dropped = can_be_dropped,
                             !.wait_arg = wait_for_reconnection,
                             !.geometry = geometry]
      key == stream_key(sid, event)
      raised(c, path, exc) ==
        [c EXCEPT !.path = path, !.result = "raised", !.exc = exc]
  IN
  IF channel_type \notin {"JPEG", "H264"}
  THEN [encoders |-> encoders,
        call |-> raised(call, "rejected", "UnknownChannelTypeUsed")]
  ELSE IF get_client_eio_sid(sid) = "ValueError"
  THEN [encoders |-> encoders, call |-> raised(call, "rejected", "ValueError")]
  ELSE IF channel_type = "H264" /\ encoder_missing(key)
          /\ constructor_fails(geometry)
  THEN [encoders |-> encoders,
        call |-> raised(call, "create_failed", "CodecCreateError")]
  ELSE
  LET create == channel_type = "H264" /\ encoder_missing(key)
      encs == IF create
              THEN Put(encoders, key, new_encoder(key, geometry, encoding_options))
              ELSE encoders
      c1 == call
  IN
  IF channel_type = "H264"
  THEN IF ~encodable
       THEN \* encode_ndarray raised H264EncoderError
            IF below_ceiling(encs[key].init_count)
            THEN [encoders |-> [encs EXCEPT ![key] = codec_init(@)],
                  call |-> encoder_error_recreated(
                             [c1 EXCEPT !.path = "encode_error",
                                        !.codec_called = TRUE,
                                        !.reinit = 1])]
            ELSE [encoders |-> encs,
                  call |-> raised([c1 EXCEPT !.codec_called = TRUE],
                                  "encode_error", "H264EncoderError")]
       ELSE [encoders |-> encs,
             call |-> send_data(
                        [c1 EXCEPT !.path = "encoded", !.codec_called = TRUE,
                                   !.keyframe = is_key_frame, !.sized = size_recorded],
                        event, "image", "JSON", sid,
                        image_can_be_dropped(can_be_dropped, is_key_frame),
                        image_wait_for_reconnection(wait_for_reconnection))]
  ELSE IF ~encodable
       THEN \* cv2.imencode raised: not an H264EncoderError, it propagates
            [encoders |-> encs, call |-> raised(c1, "encode_error", "cv2.error")]
       ELSE [encoders |-> encs,
             call |-> send_data(
                        [c1 EXCEPT !.path = "encoded", !.sized = size_recorded],
                        event, "image", "JSON", sid,
                        image_can_be_dropped(can_be_dropped, FALSE),
                        image_wait_for_reconnection(wait_for_reconnection))]

CodecCount == Cardinality(DOMAIN encoders) + Cardinality(DOMAIN decoders)

\* The frames send_image is called with: the channel type, the geometry and
\* options (among args), whether the codec accepts the frame and whether
\* the encoder reports a keyframe (H.264 only).
FrameCases(args) ==
  [channel_type : {"H264"}, args : args, encodable : {TRUE},
   is_key_frame : BOOLEAN]
  \cup
  [channel_type : {"H264"}, args : args, encodable : {FALSE},
   is_key_frame : {FALSE}]
  \cup
  [channel_type : {"JPEG"}, args : {<<"640x480", "default">>},
   encodable : BOOLEAN, is_key_frame : {FALSE}]
  \cup
  [channel_type : {"JSON"}, args : {<<"640x480", "default">>},
   encodable : {TRUE}, is_key_frame : {FALSE}]

\* A user calls send_image: on one of `events`, with a frame of `args`, and
\* with can_be_dropped and wait_for_reconnection among `drops` and `waits`.
SendImage(events, args, drops, waits) ==
  /\ running /\ pc = "idle"
  /\ \E f \in FrameCases(args), event \in events, sid \in Sids,
        can_be_dropped \in drops, wait \in waits :
       LET r == send_image(f.args[1], f.encodable, event, f.channel_type, sid,
                           can_be_dropped, wait, f.args[2], f.is_key_frame)
       IN /\ (DOMAIN r.encoders # DOMAIN encoders) => CodecCount < MaxCodecs
          /\ encoders' = r.encoders
          /\ last' = r.call
          /\ pc' = next_pc(r.call)
  /\ UNCHANGED <<config, workers, decoders, transport, running>>

\* ----------------------------------------------------------- image_decode
\* H264Decoder(data["width"], data["height"]).
new_decoder(key, geometry) ==
  [geometry |-> geometry, last_timestamp |-> InitialTimestamp,
   init_count |-> InitialInitCount,
   serial |-> IF key \in DOMAIN decoders THEN decoders[key].serial + 1 ELSE 1]

\* "decoder_id not in self._decoders"
decoder_missing(key) == key \notin DOMAIN decoders

\* Mutant: the operands of the difference are swapped.
newer_timestamp(timestamp, last_timestamp) == last_timestamp - timestamp < 0

\* "timestamp - last_timestamp < 0"
older_timestamp(timestamp, last_timestamp) == timestamp - last_timestamp < 0

\* Mutant: the timestamp of an accepted frame is not stored.
keep_timestamp(decoder, timestamp) == decoder

\* The decoder of a stream after a frame passed the ordering check.
accept_timestamp(decoder, timestamp) ==
  [decoder EXCEPT !.last_timestamp = timestamp]

\* Mutant: the re-initialised decoder starts over with the initial timestamp.
decoder_rewound(decoder) ==
  IF below_ceiling(decoder.init_count)
  THEN [codec_init(decoder) EXCEPT !.last_timestamp = InitialTimestamp]
  ELSE decoder

\* Mutant: the decoder is left as it is after an error.
decoder_not_recreated(decoder) == decoder

\* The decoder after decode_packet_data raised H264DecoderError.
decoder_after_error(decoder) ==
  IF below_ceiling(decoder.init_count) THEN codec_init(decoder) ELSE decoder

\* Mutant: at or over the ceiling the error is raised to the caller.
decoder_error_raised_at_ceiling(init_count) ==
  IF below_ceiling(init_count) THEN "error_envelope" ELSE "raise"

\* What image_decode does with an H264DecoderError once the handler has
\* (or has not) re-initialised the decoder: an error envelope, return None.
decoder_error_outcome(init_count) == "error_envelope"

\* Channels.image_decode.  The result is the new self._decoders and the
\* record of the call (`call` is the record of the caller so far).
image_decode(call, data, event, sid) ==
  LET timestamp == IF data.has_timestamp THEN data.timestamp ELSE 0
      c0 == [call EXCEPT !.event = event, !.timestamp = timestamp,
                         !.geometry = data.geometry]
      key == stream_key(sid, event)
      error(c, path) ==
        send_data([c EXCEPT !.path = path],
                  callbacks_info[event].error_event, "error", "JSON", sid,
                  FALSE, TRUE)
  IN
  IF data.frame = "absent"
  THEN [decoders |-> decoders, call |-> error(c0, "no_frame")]
  ELSE IF get_client_eio_sid(sid) = "ValueError"
  THEN [decoders |-> decoders,
        call |-> [c0 EXCEPT !.path = "rejected", !.result = "raised",
                            !.exc = "ValueError"]]
  ELSE
  LET create == callbacks_info[event].type = "H264" /\ decoder_missing(key) IN
  IF create /\ data.geometry = "absent"
  THEN [decoders |-> decoders, call |-> error(c0, "no_size")]
  ELSE IF create /\ constructor_fails(data.geometry)
  THEN [decoders |-> decoders, call |-> error(c0, "create_failed")]
  ELSE
  LET decs1 == IF create
               THEN Put(decoders, key, new_decoder(key, data.geometry))
               ELSE decoders
      c1 == c0
  IN
  IF key \in DOMAIN decs1
     /\ older_timestamp(timestamp, decs1[key].last_timestamp)
  THEN [decoders |-> decs1, call |-> error(c1, "older_timestamp")]
  ELSE
  LET decs2 == IF key \in DOMAIN decs1
               THEN [decs1 EXCEPT ![key] = accept_timestamp(@, timestamp)]
               ELSE decs1
      c2 == [c1 EXCEPT !.codec_called = TRUE]
  IN
  IF key \in DOMAIN decs2
  THEN IF data.frame = "bad"
       THEN \* decode_packet_data raised H264DecoderError
            LET before == decs2[key].init_count
                decs3 == [decs2 EXCEPT ![key] = decoder_after_error(@)]
                c3 == [c2 EXCEPT !.reinit =
                                   decs3[key].init_count - before]
            IN IF decoder_error_outcome(before) = "raise"
               THEN [decoders |-> decs3,
                     call |-> [c3 EXCEPT !.path = "decode_error",
                                         !.result = "raised",
                                         !.exc = "H264DecoderError"]]
               ELSE [decoders |-> decs3, call |-> error(c3, "decode_error")]
       ELSE [decoders |-> decs2,
             call |-> [c2 EXCEPT !.path = "decoded", !.result = "record"]]
  ELSE IF data.frame = "bad"
       THEN \* cv2.imdecode raised
            [decoders |-> decs2, call |-> error(c2, "decode_error")]
       ELSE [decoders |-> decs2,
             call |-> [c2 EXCEPT !.path = "decoded", !.result = "record"]]

\* The transport hands a server-side handler the sid of the peer that sent
\* the event; client-side handlers get none.
InboundSids == IF sio_is_client THEN {NoSid} ELSE {PeerSid}

\* An inbound image event (one of `events`, its envelope with a geometry of
\* `geometries`) on the server side: image_decode is called.  The peer may
\* have gone away by the time the handler runs.
ImageDecode(events, geometries) ==
  /\ running /\ pc = "idle" /\ ~sio_is_client
  /\ \E event \in events, sid \in InboundSids :
     \E data \in Envelopes(event, geometries) :
       LET r == image_decode([NoCall EXCEPT !.op = "image_decode"],
                             data, event, sid)
       IN /\ (DOMAIN r.decoders # DOMAIN decoders) => CodecCount < MaxCodecs
          /\ decoders' = r.decoders
          /\ last' = r.call
          /\ pc' = next_pc(r.call)
  /\ UNCHANGED <<config, workers, encoders, transport, running>>

\* ---------------------------------------------------------- ClientChannels
\* self._callbacks_info[event].callback(data): the user callback runs and,
\* when it raises, the exception leaves the handler.
user_callback(call, cb_raises) ==
  IF cb_raises
  THEN [call EXCEPT !.cb_called = @ + 1, !.cb_raised = TRUE,
                    !.result = "raised", !.exc = "CallbackError"]
  ELSE [call EXCEPT !.cb_called = @ + 1, !.result = "none"]

\* Whether the process is still running after a dispatch handler ended as
\* `call`: no handler of ClientChannels calls _shutdown (os._exit).
running_after(call) == TRUE

\* ClientChannels.json_callback
json_callback(call, cb_raises) == user_callback(call, cb_raises)

\* "if decoded_data:" for the value data_lz4_decode / image_decode returned.
truthy(decoded) == decoded \notin {"none", "empty_map"}

\* The values data_lz4_decode is called with: "not_bytes" is no bytes object
\* (a str, say), "garbage" is bytes that do not decompress or parse,
\* "empty_map" decodes to {}, "map" to a non-empty dictionary.
Lz4Payloads == {"not_bytes", "garbage", "empty_map", "map"}

\* Channels.data_lz4_decode: "assert isinstance(data, bytes)" is outside the
\* try, so the AssertionError leaves the function; a failure of decompress
\* or ujson.loads sends an error envelope and None is returned.
data_lz4_decode(call, payload, event, sid) ==
  IF payload = "not_bytes"
  THEN [call EXCEPT !.path = "not_bytes", !.result = "raised",
                    !.exc = "AssertionError"]
  ELSE IF payload = "garbage"
  THEN send_data([call EXCEPT !.path = "decode_error"],
                 callbacks_info[event].error_event, "error", "JSON", sid,
                 FALSE, TRUE)
  ELSE [call EXCEPT !.path = payload, !.result = "record"]

\* ClientChannels.json_lz4_callback
json_lz4_callback(payload, event, cb_raises) ==
  LET d == data_lz4_decode(
             [NoCall EXCEPT !.op = "json_lz4_callback", !.event = event,
                            !.payload = payload],
             payload, event, NoSid)
  IN IF d.result = "record"
     THEN IF truthy(d.path) THEN json_callback(d, cb_raises)
          ELSE [d EXCEPT !.result = "none"]
     ELSE d

\* Mutant: the test "if decoded_data:" is missing.
image_callback_unguarded(data, event, cb_raises) ==
  LET r == image_decode([NoCall EXCEPT !.op = "image_callback"],
                        data, event, NoSid)
  IN [decoders |-> r.decoders, call |-> user_callback(r.call, cb_raises)]

\* The parameters without a default of the handler ClientChannels registers
\* for a JSON_LZ4 event: "lambda sid, data, local_event=event: ...".
Lz4HandlerParams == <<"sid", "data">>

\* The parameters of that handler that have a default.
Lz4HandlerDefaults == <<"local_event">>

\* The positional arguments a socketio client calls a handler with for an
\* event emitted by send_data: the one data item of the emit.
ClientHandlerArgs == <<"data">>

\* The handler registered for a JSON_LZ4 event, called with `args`: the
\* call fails with TypeError unless the arguments fit the parameters; a
\* third positional argument replaces the default of local_event;
\* otherwise json_lz4_callback runs with the second argument (`payload`).
json_lz4_handler(args, payload, event, cb_raises) ==
  IF /\ Len(args) >= Len(Lz4HandlerParams)
     /\ Len(args) <= Len(Lz4HandlerParams) + Len(Lz4HandlerDefaults)
  THEN LET local_event == IF Len(args) > Len(Lz4HandlerParams)
                          THEN args[Len(Lz4HandlerParams) + 1] ELSE event
       IN [json_lz4_callback(payload, local_event, cb_raises)
             EXCEPT !.op = "json_lz4_event"]
  ELSE [NoCall EXCEPT !.op = "json_lz4_event", !.event = event,
                      !.payload = payload, !.path = "not_called",
                      !.result = "raised", !.exc = "TypeError"]

\* ClientChannels.image_callback: the new self._decoders and the call.
image_callback(data, event, cb_raises) ==
  LET r == image_decode([NoCall EXCEPT !.op = "image_callback"],
                        data, event, NoSid)
  IN IF r.call.result = "record"
     THEN [decoders |-> r.decoders, call |-> user_callback(r.call, cb_raises)]
     ELSE r

\* An inbound JSON event on the client.
JsonCallback ==
  /\ running /\ pc = "idle" /\ sio_is_client
  /\ \E cb_raises \in BOOLEAN :
       /\ last' = json_callback(
                    [NoCall EXCEPT !.op = "json_callback", !.event = "json"],
                    cb_raises)
       /\ running' = running_after(last')
  /\ pc' = "idle"
  /\ UNCHANGED <<config, workers, encoders, decoders, transport>>

\* json_lz4_callback runs for a JSON_LZ4 payload on the client.
JsonLz4Callback ==
  /\ running /\ pc = "idle" /\ sio_is_client
  /\ \E payload \in Lz4Payloads, cb_raises \in BOOLEAN :
       /\ last' = json_lz4_callback(payload, "lz4", cb_raises)
       /\ running' = running_after(last')
       /\ pc' = next_pc(last')
  /\ UNCHANGED <<config, workers, encoders, decoders, transport>>

\* The client transport dispatches an inbound JSON_LZ4 event to the handler
\* registered for it.
JsonLz4Event ==
  /\ running /\ pc = "idle" /\ sio_is_client
  /\ \E payload \in Lz4Payloads :
       /\ last' = json_lz4_handler(ClientHandlerArgs, payload, "lz4", FALSE)
       /\ running' = running_after(last')
       /\ pc' = next_pc(last')
  /\ UNCHANGED <<config, workers, encoders, decoders, transport>>

\* An inbound JSON_LZ4 event on the server side: data_lz4_decode is called
\* with the sid of the peer, which may have gone away by then.
DataLz4Decode ==
  /\ running /\ pc = "idle" /\ ~sio_is_client
  /\ \E payload \in Lz4Payloads, sid \in InboundSids :
       /\ last' = data_lz4_decode(
                    [NoCall EXCEPT !.op = "data_lz4_decode", !.event = "lz4",
                                   !.payload = payload],
                    payload, "lz4", sid)
       /\ pc' = next_pc(last')
  /\ UNCHANGED <<config, workers, encoders, decoders, transport, running>>

\* An inbound image event on the client.
ImageCallback(events, geometries) ==
  /\ running /\ pc = "idle" /\ sio_is_client
  /\ \E event \in events :
     \E data \in Envelopes(event, geometries) :
     \E cb_raises \in (IF data.frame = "good" THEN BOOLEAN ELSE {FALSE}) :
       LET r == image_callback(data, event, cb_raises)
       IN /\ (DOMAIN r.decoders # DOMAIN decoders) => CodecCount < MaxCodecs
          /\ decoders' = r.decoders
          /\ last' = r.call
          /\ running' = running_after(r.call)
          /\ pc' = next_pc(r.call)
  /\ UNCHANGED <<config, workers, encoders, transport>>

\* ------------------------------------------------------- parallel handlers
\* send_image and image_decode have no lock: when handlers run in threads,
\* the steps of two calls interleave at every statement.  A thread goes
\* through "test" (the registry lookup is next), "construct" (the lookup
\* found no codec), "call" (the codec call is next), "in_codec" (inside
\* encode_ndarray / decode_packet_data), "failed" (the codec raised, the
\* ceiling test is next) and "reinit" (the test passed, the
\* re-initialisation is next).  Frames come with one geometry and timestamp 0.
ParKey(event) == stream_key(CHOOSE s \in InboundSids : TRUE, event)

\* A handler starts in thread t: the lines before the registry lookup.
ParStart(t) ==
  /\ running /\ pc = "idle" /\ workers[t].pc = "idle"
  /\ \E op \in {"send_image", "image_decode"}, event \in {"cam1"},
        frame \in {"good", "bad"} :
       workers' = [workers EXCEPT ![t] =
                     [pc |-> "test", op |-> op, event |-> event,
                      frame |-> frame, missing |-> FALSE]]
  /\ UNCHANGED <<config, encoders, decoders, transport, running, pc, last>>

\* "if encoder_id not in self._encoders" / "decoder_id not in self._decoders"
ParTest(t) ==
  /\ workers[t].pc = "test"
  /\ LET w == workers[t]
         missing == IF w.op = "send_image"
                    THEN encoder_missing(ParKey(w.event))
                    ELSE decoder_missing(ParKey(w.event))
     IN workers' = [workers EXCEPT
                      ![t].missing = missing,
                      ![t].pc = IF missing THEN "construct" ELSE "call"]
  /\ UNCHANGED <<config, encoders, decoders, transport, running, pc, last>>

\* "self._encoders[encoder_id] = H264Encoder(...)" and its decoder twin.
ParConstruct(t) ==
  /\ workers[t].pc = "construct"
  /\ LET key == ParKey(workers[t].event) IN
     IF workers[t].op = "send_image"
     THEN /\ encoders' = Put(encoders, key,
                             new_encoder(key, "640x480", "default"))
          /\ UNCHANGED decoders
     ELSE /\ decoders' = Put(decoders, key, new_decoder(key, "640x480"))
          /\ UNCHANGED encoders
  /\ workers' = [workers EXCEPT ![t].pc = "call"]
  /\ UNCHANGED <<config, transport, running, pc, last>>

\* The thread enters encode_ndarray / decode_packet_data (image_decode has
\* passed the ordering check and stored the timestamp).
ParEnter(t) ==
  /\ workers[t].pc = "call"
  /\ LET key == ParKey(workers[t].event) IN
     IF workers[t].op = "image_decode"
     THEN decoders' = [decoders EXCEPT ![key] = accept_timestamp(@, 0)]
     ELSE UNCHANGED decoders
  /\ workers' = [workers EXCEPT ![t].pc = "in_codec"]
  /\ UNCHANGED <<config, encoders, transport, running, pc, last>>

\* The codec call returns and the handler ends, or it raises and the
\* handler's except branch is next.
ParLeave(t) ==
  /\ workers[t].pc = "in_codec"
  /\ workers' = [workers EXCEPT ![t] =
                   IF workers[t].frame = "good" THEN IdleWorker
                   ELSE [@ EXCEPT !.pc = "failed"]]
  /\ UNCHANGED <<config, encoders, decoders, transport, running, pc, last>>

\* "if ...get_init_count() < self._recreate_h264_attempts_count": at or over
\* the ceiling the handler ends without a re-initialisation.
ParCeiling(t) ==
  /\ workers[t].pc = "failed"
  /\ LET w == workers[t]
         key == ParKey(w.event)
         codec == IF w.op = "send_image" THEN encoders[key] ELSE decoders[key]
     IN workers' = [workers EXCEPT ![t] =
                      IF below_ceiling(codec.init_count)
                      THEN [@ EXCEPT !.pc = "reinit"] ELSE IdleWorker]
  /\ UNCHANGED <<config, encoders, decoders, transport, running, pc, last>>

\* "self._encoders[encoder_id].encoder_init()" / "...decoder_init()" after
\* the test found init_count below the ceiling; the handler ends.
ParReinit(t) ==
  /\ workers[t].pc = "reinit"
  /\ LET key == ParKey(workers[t].event) IN
     IF workers[t].op = "send_image"
     THEN /\ encoders' = [encoders EXCEPT ![key] = codec_init(@)]
          /\ UNCHANGED decoders
     ELSE /\ decoders' = [decoders EXCEPT ![key] = codec_init(@)]
          /\ UNCHANGED encoders
  /\ workers' = [workers EXCEPT ![t] = IdleWorker]
  /\ UNCHANGED <<config, transport, running, pc, last>>

\* Two threads running send_image and image_decode on one H.264 event.
NextPar ==
  \E t \in Threads :
    \/ ParStart(t) \/ ParTest(t) \/ ParConstruct(t) \/ ParEnter(t)
    \/ ParLeave(t) \/ ParCeiling(t) \/ ParReinit(t)

InitPar == Init /\ back_pressure_size = NONE

SpecPar == InitPar /\ [][NextPar]_vars

\* The send pipeline with its transport: one H.264 stream, frames of one
\* valid geometry and of the invalid one.
NextSend ==
  \/ Disconnect \/ Connect \/ ReconnectGivesUp \/ QueueGrows \/ QueueDrains
  \/ SendData \/ WaitEnds \/ WaitSleeps
  \/ SendImage({"cam1"}, {<<"640x480", "default">>, <<"0x0", "default">>},
               BOOLEAN, WaitArgs)

SpecSend == Init /\ [][NextSend]_vars

\* The thread inside send_data's wait loop keeps running: time.sleep(1)
\* returns and the loop condition is evaluated again.
SpecSendFair == SpecSend /\ WF_vars(WaitEnds) /\ WF_vars(WaitSleeps)

\* The receive pipeline and the client dispatch handlers with the transport:
\* one H.264 stream (with a custom error event) and one JPEG stream.
NextRecv ==
  \/ Disconnect \/ Connect \/ ReconnectGivesUp
  \/ ImageDecode({"cam2", "pic"}, {"640x480", "0x0"})
  \/ ImageCallback({"cam2", "pic"}, {"640x480", "0x0"})
  \/ JsonCallback \/ JsonLz4Callback \/ JsonLz4Event \/ DataLz4Decode
  \/ WaitEnds \/ WaitSleeps

SpecRecv == Init /\ [][NextRecv]_vars

\* Both codec registries, two outbound H.264 streams and one inbound, with
\* every geometry, over a transport that stays connected.
NextCodec ==
  \/ SendImage({"cam1", "cam2"}, FrameArgs, {TRUE}, {TRUE})
  \/ ImageDecode({"cam1"}, Geometries)
  \/ ImageCallback({"cam1"}, Geometries)

\* No send of this specification meets a queue over the limit: it is run
\* with back pressure disabled.
InitCodec == Init /\ back_pressure_size = NONE

SpecCodec == InitCodec /\ [][NextCodec]_vars

\* Two outbound and two inbound H.264 streams, with a geometry the codecs
\* accept and one their constructors reject.
NextFrame ==
  \/ SendImage({"cam1", "cam2"}, {<<"640x480", "default">>,
                                  <<"0x0", "default">>}, {TRUE}, {TRUE})
  \/ ImageDecode({"cam1", "cam2"}, {"640x480", "0x0"})
  \/ ImageCallback({"cam1", "cam2"}, {"640x480", "0x0"})

SpecFrame == InitCodec /\ [][NextFrame]_vars

\* One outbound H.264 stream over a transport whose queue grows and drains,
\* with and without stats.
NextStats ==
  \/ QueueGrows \/ QueueDrains
  \/ SendImage({"cam1"}, {<<"640x480", "default">>}, BOOLEAN, {TRUE})

InitStats == Constructed /\ stats \in BOOLEAN

SpecStats == InitStats /\ [][NextStats]_vars

\* ------------------------------------------------------------------ claims
\* The StreamKey of an event on the one connection of the model.
KeyOf(event) == stream_key(IF sio_is_client THEN NoSid ELSE PeerSid, event)

\* The one emit of a call that handed `event` and `payload` to the transport.
Emitted(event, payload) == << [event |-> event, payload |-> payload] >>

\* A step in which a handler is called (the record of the call is last').
CallStep == pc = "idle" /\ last'.op # "none"

\* A call whose send_data got past the channel type check.
SendReached(call) == call.sd_called /\ call.exc # "UnknownChannelTypeUsed"

\* The handlers that run image_decode.
DecodeOps == {"image_decode", "image_callback"}

\* The events declared as H.264 channels.
H264Events == {e \in DOMAIN callbacks_info : callbacks_info[e].type = "H264"}

\* The call ended (or is blocked) in sending an error envelope, not
\* droppable, on the error_event of its event; it raised nothing, returns
\* None, and no user callback ran.
ErrorEnvelope(call) ==
  /\ call.sd_called /\ ~call.sd_droppable /\ call.sd_payload = "error"
  /\ call.sd_event = callbacks_info[call.event].error_event
  /\ call.exc = "none" /\ call.cb_called = 0
  /\ call.result \in {"none", "pending"}
  /\ call.result = "none" => call.emits = Emitted(call.sd_event, "error")

\* The call ended in send_data for an error envelope on the error_event of
\* its event that raised ConnectionError to the caller: nothing was
\* emitted and no user callback ran.
ErrorSendFailed(call) ==
  /\ call.sd_called /\ ~call.sd_droppable /\ call.sd_payload = "error"
  /\ call.sd_event = callbacks_info[call.event].error_event
  /\ call.exc = "ConnectionError" /\ call.result = "raised"
  /\ call.emits = << >> /\ call.cb_called = 0

\* The error report of a failed decode: an error envelope, or, on a server
\* whose peer is not connected when the handler runs, the ConnectionError
\* of send_data.  (The record of a returned call is kept only while the
\* transport stays as it was during the call.)
ErrorReported(call) ==
  IF ~sio_is_client /\ ~connected THEN ErrorSendFailed(call)
  ELSE ErrorEnvelope(call)

\* C1 as stated: on an H.264 StreamKey an envelope whose timestamp is lower
\* than the decoder's last_timestamp is never passed to the decoder and
\* leaves last_timestamp and the decoder unchanged; image_decode sends an
\* ordering-error envelope on the event's error_event and returns None.
C1_OlderTimestampReported ==
  [][/\ (CallStep /\ last'.op \in DecodeOps /\ last'.event \in H264Events
           /\ KeyOf(last'.event) \in DOMAIN decoders
           /\ last'.timestamp < decoders[KeyOf(last'.event)].last_timestamp)
          => /\ ~last'.codec_called /\ decoders' = decoders
             /\ last'.path # "no_frame" => last'.path = "older_timestamp"
     /\ last'.path = "older_timestamp"
          => /\ decoders' = decoders
             /\ ~last'.codec_called /\ last'.reinit = 0
             /\ ErrorEnvelope(last')
    ]_vars

\* C1 amended: on an H.264 StreamKey an envelope whose timestamp is lower
\* than the decoder's last_timestamp is never passed to the decoder and
\* leaves last_timestamp and the decoder unchanged; when it carries a frame,
\* image_decode sends an ordering-error envelope on the event's error_event
\* and returns None, except on a server whose peer is not connected, where
\* send_data's ConnectionError leaves image_decode and nothing is emitted.
C1_OlderTimestampRejected ==
  [][/\ (CallStep /\ last'.op \in DecodeOps /\ last'.event \in H264Events
           /\ KeyOf(last'.event) \in DOMAIN decoders
           /\ last'.timestamp < decoders[KeyOf(last'.event)].last_timestamp)
          => /\ ~last'.codec_called /\ decoders' = decoders
             /\ last'.path # "no_frame" => last'.path = "older_timestamp"
     /\ (CallStep /\ last'.path = "older_timestamp")
          => /\ decoders' = decoders
             /\ ~last'.codec_called /\ last'.reinit = 0
             /\ ErrorReported(last')
    ]_vars

\* C1 witness: an envelope older than the stream's last_timestamp was
\* answered with an error envelope on the custom error event.
C1_Witness ==
  /\ last.path = "older_timestamp" /\ last.event = "cam2"
  /\ last.timestamp < decoders[KeyOf("cam2")].last_timestamp
  /\ last.result = "none" /\ last.emits = Emitted("cam2_error", "error")

\* The init_count of the codec registered under key in codecs, or the one
\* a codec constructed by the call starts with.
InitCountBefore(codecs, key) ==
  IF key \in DOMAIN codecs THEN codecs[key].init_count ELSE InitialInitCount

\* C6 as stated: when the decoder raises in image_decode with init_count
\* below recreate_h264_attempts_count, it is re-initialised in place exactly
\* once, an error envelope goes to the event's error_event and image_decode
\* returns None.
C6_DecoderErrorEnvelope ==
  [][(CallStep /\ last'.op \in DecodeOps /\ last'.event \in H264Events
        /\ last'.path = "decode_error"
        /\ InitCountBefore(decoders, KeyOf(last'.event)) < recreate_count)
       => (last'.reinit = 1 /\ ErrorEnvelope(last'))
    ]_vars

\* C6 amended: when the decoder raises in image_decode with init_count below
\* recreate_h264_attempts_count, it is re-initialised in place exactly once,
\* an error envelope goes to the event's error_event and image_decode
\* returns None (on a server whose peer is not connected send_data's
\* ConnectionError leaves image_decode instead), and the decoder stays
\* registered, so that the next valid in-order frame of the StreamKey is
\* decoded and returned.
C6_DecoderRecreated ==
  [][/\ (CallStep /\ last'.op \in DecodeOps /\ last'.event \in H264Events
           /\ last'.path = "decode_error"
           /\ InitCountBefore(decoders, KeyOf(last'.event)) < recreate_count)
          => LET key == KeyOf(last'.event) IN
             /\ last'.reinit = 1
             /\ key \in DOMAIN decoders'
             /\ decoders'[key].init_count = InitCountBefore(decoders, key) + 1
             /\ decoders'[key].serial = 1
             /\ key \in DOMAIN decoders =>
                  decoders'[key].geometry = decoders[key].geometry
             /\ ErrorReported(last')
     /\ (CallStep /\ last'.op \in DecodeOps /\ last'.event \in H264Events
           /\ KeyOf(last'.event) \in DOMAIN decoders
           /\ last'.timestamp >= decoders[KeyOf(last'.event)].last_timestamp
           /\ last'.path \notin {"no_frame", "decode_error"})
          => LET key == KeyOf(last'.event) IN
             /\ last'.path = "decoded" /\ last'.codec_called
             /\ last'.op = "image_decode" => last'.result = "record"
             /\ last'.op = "image_callback" => last'.cb_called = 1
             /\ decoders' = [decoders EXCEPT
                               ![key].last_timestamp = last'.timestamp]
    ]_vars

\* C6 witness: a frame was decoded by a decoder re-initialised after an error.
C6_Witness ==
  /\ last.op \in DecodeOps /\ last.event \in H264Events
  /\ last.path = "decoded"
  /\ decoders[KeyOf(last.event)].init_count = 1

\* An H.264 decode error met with init_count at or over the ceiling.
DecodeErrorAtCeiling ==
  /\ last.op \in DecodeOps /\ last.event \in H264Events
  /\ last.path = "decode_error" /\ last.reinit = 0

\* C7 as stated: a decoder error with init_count at or over the ceiling is
\* propagated to image_decode's caller instead of being reported as a
\* dropped frame.
C7_DecoderErrorPropagated ==
  DecodeErrorAtCeiling => (last.result = "raised" /\ last.emits = << >>)

\* C7 amended: a decoder error with init_count at or over the ceiling is
\* reported like any dropped frame: the decoder is not re-initialised, an
\* error envelope goes to the event's error_event and image_decode returns
\* None; the decoder error is never raised to the caller (the only
\* exception that leaves image_decode is send_data's ConnectionError, on a
\* server whose peer is not connected).
C7_DecoderErrorReported ==
  /\ DecodeErrorAtCeiling =>
       /\ decoders[KeyOf(last.event)].init_count >= recreate_count
       /\ ErrorReported(last)
  /\ (last.op \in DecodeOps /\ last.path = "decode_error")
       => last.exc # "H264DecoderError"

\* C7 witness: such an error was answered with an error envelope.
C7_Witness ==
  /\ DecodeErrorAtCeiling /\ last.result = "none"
  /\ last.emits = Emitted("cam2_error", "error")

\* C9 as stated: when the user callback of a client dispatch handler raises,
\* the exception is contained: the process is terminated through _shutdown
\* and nothing propagates into the transport.
C9_CallbackFaultContained ==
  last.cb_raised => (~running /\ last.result # "raised")

\* C11 as stated: when handlers run in parallel, two image_decode calls for
\* one StreamKey are never inside that key's decoder at the same time, and
\* two send_image calls for one StreamKey never inside its encoder.
C11_OneThreadPerCodec ==
  \A t1, t2 \in Threads :
    (t1 # t2 /\ workers[t1].pc = "in_codec" /\ workers[t2].pc = "in_codec")
      => (workers[t1].op # workers[t2].op
            \/ workers[t1].event # workers[t2].event)

\* C17 as stated: under any interleaving of two first-use calls for one
\* StreamKey the codec is constructed at most once and the registered
\* instance is never replaced by a second one.
C17_ConstructedAtMostOnce ==
  /\ \A k \in DOMAIN encoders : encoders[k].serial = 1
  /\ \A k \in DOMAIN decoders : decoders[k].serial = 1

\* A call step of image_decode that returned a record for the event.
Returned(call) == call.op \in DecodeOps /\ call.path = "decoded"

\* C12 as stated: on every image StreamKey, JPEG as well as H.264, the
\* timestamps of the records image_decode returns are non-decreasing: a
\* record is never followed by one with a lower timestamp.
C12_AllTimestampsNonDecreasing ==
  [][(CallStep /\ Returned(last) /\ Returned(last')
        /\ last.event = last'.event)
       => last'.timestamp >= last.timestamp]_vars

\* C12 amended: on every H.264 StreamKey the timestamps of the returned
\* records are non-decreasing: a returned record's timestamp is not below
\* the stream's last_timestamp, becomes the new last_timestamp, and
\* last_timestamp never decreases.  For a JPEG channel image_decode keeps no
\* last timestamp: every decodable envelope is returned.
C12_H264TimestampsNonDecreasing ==
  [][/\ (CallStep /\ Returned(last') /\ last'.event \in H264Events)
          => LET key == KeyOf(last'.event) IN
             /\ key \in DOMAIN decoders'
             /\ decoders'[key].last_timestamp = last'.timestamp
             /\ key \in DOMAIN decoders =>
                  last'.timestamp >= decoders[key].last_timestamp
     /\ (CallStep /\ Returned(last) /\ Returned(last')
           /\ last.event = last'.event /\ last'.event \in H264Events)
          => last'.timestamp >= last.timestamp
     /\ \A k \in DOMAIN decoders :
          decoders'[k].last_timestamp >= decoders[k].last_timestamp
     /\ (CallStep /\ last'.op \in DecodeOps /\ last'.event \notin H264Events
           /\ last'.path \notin {"no_frame", "decode_error"})
          => Returned(last')
    ]_vars

\* C12 witness: an H.264 record with a timestamp above the initial one was
\* returned and is the stream's last_timestamp.
C12_Witness ==
  /\ Returned(last) /\ last.event = "cam2" /\ last.timestamp > 0
  /\ decoders[KeyOf("cam2")].last_timestamp = last.timestamp

\* The branches of image_decode and data_lz4_decode that end in failure.
FailurePaths ==
  {"no_frame", "no_size", "create_failed", "older_timestamp", "decode_error"}

\* The handlers that run data_lz4_decode.
Lz4Ops == {"json_lz4_callback", "data_lz4_decode"}

\* C13 as stated: every failure of image_decode (missing frame; missing
\* width or height on the first H.264 envelope; decoder construction
\* failure; older timestamp; codec decode error) and every failure of
\* data_lz4_decode ends in exactly one error envelope, sent as a
\* non-droppable JSON message on the error_event of the event, and in the
\* result None.
C13_FailureAlwaysEnveloped ==
  (last.op \in DecodeOps \cup Lz4Ops
     /\ last.path \in FailurePaths \cup {"not_bytes"})
    => /\ ErrorEnvelope(last)
       /\ last.sd_type = "JSON"
       /\ Len(last.emits) = IF last.result = "none" THEN 1 ELSE 0

\* C13 amended: every failure of image_decode (missing frame; missing width
\* or height on the first H.264 envelope; decoder construction failure;
\* older timestamp; codec decode error) and every failure of data_lz4_decode
\* to decompress or parse a bytes payload ends in one send_data of an error
\* envelope as a non-droppable JSON message on the error_event of the event;
\* the envelope is emitted exactly once and the result is None, except on a
\* server whose peer is not connected, where send_data raises
\* ConnectionError and nothing is emitted.  A payload that is not bytes
\* makes data_lz4_decode raise AssertionError without any send_data.  In
\* every one of these cases the client handler does not call the user
\* callback.  (A client that is disconnected sends the envelope when
\* send_data's wait is over.)
C13_FailureReported ==
  /\ (last.op \in DecodeOps \cup Lz4Ops /\ last.path \in FailurePaths)
       => /\ ErrorReported(last)
          /\ last.sd_type = "JSON"
          /\ last.cb_called = 0
          /\ Len(last.emits) = IF last.result = "none" THEN 1 ELSE 0
  /\ (last.op \in Lz4Ops /\ last.payload = "garbage")
       => last.path = "decode_error"
  /\ (last.op \in Lz4Ops /\ last.payload = "not_bytes")
       => /\ last.path = "not_bytes"
          /\ last.result = "raised" /\ last.exc = "AssertionError"
          /\ ~last.sd_called /\ last.emits = << >> /\ last.cb_called = 0

\* C13 witness: the client's image handler met a decoder that could not be
\* constructed and one error envelope went to the custom error event.
C13_Witness ==
  /\ last.op = "image_callback" /\ last.path = "create_failed"
  /\ last.result = "none" /\ last.cb_called = 0
  /\ last.emits = Emitted("cam2_error", "error")

\* C14 as stated: on a client JSON_LZ4 channel every inbound payload that
\* decompresses and parses, the empty map included, has the user callback
\* invoked exactly once with the decoded map.
C14_Lz4CallbackInvoked ==
  (last.op \in {"json_lz4_callback", "json_lz4_event"}
     /\ last.payload \in {"map", "empty_map"})
    => (last.cb_called = 1 /\ last.exc \in {"none", "CallbackError"})

\* C15: on the server side a send_data call that passes admission and whose
\* target the transport reports as not connected raises ConnectionError to
\* its caller, and the transport's emit is not called.
C15_ServerNotConnected ==
  (last.sd_called /\ ~sio_is_client /\ ~connected /\ ~last.bp_rejected
     /\ last.sd_type \in {"JSON", "JSON_LZ4"})
    => /\ last.result = "raised" /\ last.exc = "ConnectionError"
       /\ last.emits = << >>

\* C15 witness: a droppable send_data, admitted by back pressure, to a
\* peer that is not connected.
C15_Witness ==
  /\ last.op = "send_data" /\ ~sio_is_client /\ ~connected
  /\ last.sd_droppable /\ back_pressure_size # NONE /\ ~last.bp_rejected
  /\ last.exc = "ConnectionError" /\ last.emits = << >>

\* What a step does to the init_count of the codecs of one registry: none
\* goes over the ceiling, none decreases, none at the ceiling grows, and
\* none grows by more than one.
ReinitStep(before, after) ==
  /\ \A k \in DOMAIN after : after[k].init_count <= recreate_count
  /\ \A k \in DOMAIN before :
       /\ after[k].init_count >= before[k].init_count
       /\ after[k].init_count <= before[k].init_count + 1
       /\ before[k].init_count >= recreate_count
            => after[k].init_count = before[k].init_count

\* C16: with init_count 0 on creation and one more per re-initialisation,
\* over any sequence of send_image and image_decode calls with codec
\* failures the re-initialisations of a StreamKey's encoder, and of its
\* decoder, never exceed recreate_h264_attempts_count; init_count never
\* decreases, and no re-initialisation happens once it is at the ceiling.
C16_ReinitBounded ==
  [][/\ ReinitStep(encoders, encoders')
     /\ ReinitStep(decoders, decoders')
     /\ (CallStep /\ last'.op = "send_image" /\ last'.codec_called)
          => LET key == KeyOf(last'.event) IN
             /\ last'.reinit =
                  encoders'[key].init_count - InitCountBefore(encoders, key)
             /\ InitCountBefore(encoders, key) >= recreate_count
                  => last'.reinit = 0
     /\ (CallStep /\ last'.op \in DecodeOps /\ last'.codec_called
           /\ last'.event \in H264Events)
          => LET key == KeyOf(last'.event) IN
             /\ last'.reinit =
                  decoders'[key].init_count - InitCountBefore(decoders, key)
             /\ InitCountBefore(decoders, key) >= recreate_count
                  => last'.reinit = 0
    ]_vars

\* C16 witness: a decoder at the ceiling failed again and was not
\* re-initialised, with an encoder at the ceiling too.
C16_Witness ==
  /\ last.op \in DecodeOps /\ last.path = "decode_error" /\ last.reinit = 0
  /\ last.event \in H264Events
  /\ decoders[KeyOf(last.event)].init_count = recreate_count
  /\ \E k \in DOMAIN encoders : encoders[k].init_count = recreate_count

\* What a call for StreamKey key does to a registry it works on: the
\* entries of the other keys are left as they are and none appears.
OthersUntouched(before, after, key) ==
  /\ DOMAIN after \subseteq DOMAIN before \cup {key}
  /\ \A k \in DOMAIN before \ {key} :
       k \in DOMAIN after /\ after[k] = before[k]

\* C18: every send_image and image_decode call for StreamKey k, whether it
\* succeeds, fails on codec construction, fails on a codec error or is
\* rejected for ordering, leaves the registry entries of every other
\* StreamKey unchanged; a construction failure for k leaves no entry for k,
\* and a call that finds no entry for k attempts the construction (again).
C18_OtherStreamsUntouched ==
  [][/\ (CallStep /\ last'.op = "send_image")
          => LET key == KeyOf(last'.event) IN
             /\ OthersUntouched(encoders, encoders', key)
             /\ decoders' = decoders
             /\ last'.path = "create_failed"
                  => (key \notin DOMAIN encoders /\ encoders' = encoders)
             /\ (last'.channel_type = "H264" /\ key \notin DOMAIN encoders)
                  => (last'.path = "create_failed"
                        \/ key \in DOMAIN encoders')
     /\ (CallStep /\ last'.op \in DecodeOps)
          => LET key == KeyOf(last'.event) IN
             /\ OthersUntouched(decoders, decoders', key)
             /\ encoders' = encoders
             /\ last'.path = "create_failed"
                  => (key \notin DOMAIN decoders /\ decoders' = decoders)
             /\ (last'.event \in H264Events /\ key \notin DOMAIN decoders
                   /\ last'.path \notin {"no_frame", "no_size"})
                  => (last'.path = "create_failed"
                        \/ key \in DOMAIN decoders')
    ]_vars

\* C18 witness: a decoder could not be constructed for one stream while
\* another stream's decoder is registered.
C18_Witness ==
  /\ last.op \in DecodeOps /\ last.path = "create_failed"
  /\ KeyOf(last.event) \notin DOMAIN decoders
  /\ DOMAIN decoders # {}

\* The wait loop of send_data is left at its next test: the transport is
\* connected, or no reconnection task is alive.
WaitOver == connected \/ reconnect_task # "alive"

\* C19: the client-side wait loop of send_data ends once the connection is
\* re-established or the reconnection task is absent or no longer alive:
\* a send_data call made then performs no wait step at all, a loop that is
\* waiting sleeps no more and goes on to the emit, and it sleeps again only
\* while disconnected with the task alive; if the condition persists, the
\* call does return.
C19_WaitTerminates ==
  /\ [][/\ (CallStep /\ last'.sd_called /\ WaitOver)
             => (last'.sleeps = 0 /\ pc' = "idle")
        /\ (pc = "waiting" /\ WaitOver /\ last' # last)
             => (pc' = "idle" /\ last'.sleeps = last.sleeps)
        /\ (pc = "waiting" /\ last'.sleeps > last.sleeps)
             => (~connected /\ reconnect_task = "alive")
        /\ pc' = "waiting" => sio_is_client
       ]_vars
  /\ []((pc = "waiting" /\ []WaitOver) => <>(pc = "idle"))

\* C19 witness: a send_data that slept in the wait loop has returned after
\* the reconnection.
C19_Witness ==
  /\ pc = "idle" /\ last.sd_called /\ last.sleeps > 0 /\ connected
  /\ last.result = "none" /\ last.emits # << >>

\* C20 as stated: a send_image call made with wait_for_reconnection=False
\* never blocks waiting for reconnection (the caller's value governs the
\* wait loop of the send_data call send_image makes): it is never inside
\* the wait loop and has never slept there.
C20_ImageWaitArgGoverns ==
  (last.op = "send_image" /\ ~last.wait_arg)
    => (pc = "idle" /\ last.sleeps = 0)

\* C21: the last_timestamp of an H.264 StreamKey is the timestamp of the most
\* recent envelope that passed the ordering check, whether or not its decode
\* succeeded: a call that passes the check stores its timestamp, a call that
\* does not pass leaves last_timestamp as it is, and after a frame whose
\* decode failed an envelope with a lower timestamp is rejected as older.
C21_TimestampOfLastChecked ==
  [][/\ (CallStep /\ last'.op \in DecodeOps /\ last'.event \in H264Events)
          => LET key == KeyOf(last'.event) IN
             /\ last'.path \in {"decoded", "decode_error"}
                  => /\ key \in DOMAIN decoders'
                     /\ decoders'[key].last_timestamp = last'.timestamp
             /\ (last'.path \notin {"decoded", "decode_error"}
                   /\ key \in DOMAIN decoders)
                  => decoders'[key].last_timestamp
                       = decoders[key].last_timestamp
     /\ (~CallStep \/ last'.op \notin DecodeOps) =>
          \A k \in DOMAIN decoders :
            decoders'[k].last_timestamp = decoders[k].last_timestamp
     /\ (CallStep /\ last.op \in DecodeOps /\ last.path = "decode_error"
           /\ last.event \in H264Events
           /\ last'.op \in DecodeOps /\ last'.event = last.event
           /\ last'.timestamp < last.timestamp /\ last'.path # "no_frame")
          => last'.path = "older_timestamp"
    ]_vars

\* C21 witness: a frame above the initial timestamp failed to decode, the
\* decoder was re-initialised, and last_timestamp is that frame's.
C21_Witness ==
  /\ last.op \in DecodeOps /\ last.event \in H264Events
  /\ last.path = "decode_error" /\ last.reinit = 1 /\ last.timestamp > 0
  /\ decoders[KeyOf(last.event)].last_timestamp = last.timestamp

\* C22: in send_image on an H.264 channel the back-pressure decision is
\* taken only after the frame has been encoded: send_data is never reached
\* before the encoder has processed the frame, and whenever a droppable
\* non-keyframe is rejected by back pressure the encoder of the StreamKey
\* is registered and has consumed the frame and, with stats enabled, the
\* frame size has been recorded, although no envelope was emitted.
C22_EncodedBeforeAdmission ==
  (last.op = "send_image" /\ last.channel_type = "H264")
    => /\ last.sd_called => (last.codec_called /\ last.path = "encoded")
       /\ last.bp_rejected
            => /\ last.can_be_dropped /\ ~last.keyframe
               /\ last.codec_called /\ last.path = "encoded"
               /\ KeyOf(last.event) \in DOMAIN encoders
               /\ last.sized = stats
               /\ last.emits = << >>

\* C22 witness: with stats enabled, the first frame of a stream was rejected
\* by back pressure after its size was recorded.
C22_Witness ==
  /\ last.op = "send_image" /\ last.channel_type = "H264"
  /\ last.bp_rejected /\ stats /\ last.sized /\ last.codec_called
  /\ last.emits = << >>

\* C2: with back_pressure_size configured, a droppable send_data never
\* reaches the transport when the queue depth is strictly greater than
\* back_pressure_size and is admitted when the depth is at most that; a
\* non-droppable send_data to a connected peer reaches the transport at every
\* depth, and so does every send when back_pressure_size is absent.
C2_BackPressureAdmission ==
  [][(CallStep /\ SendReached(last')) =>
       /\ (back_pressure_size # NONE /\ last'.sd_droppable
             /\ qsize > back_pressure_size)
            => (last'.emits = << >> /\ last'.result = "raised"
                /\ last'.bp_rejected)
       /\ (back_pressure_size # NONE /\ last'.sd_droppable
             /\ qsize <= back_pressure_size)
            => (~last'.bp_rejected /\ last'.exc # "BackPressureException"
                /\ (connected =>
                      last'.emits = Emitted(last'.sd_event, last'.sd_payload)))
       /\ (~last'.sd_droppable /\ connected)
            => last'.emits = Emitted(last'.sd_event, last'.sd_payload)
       /\ (back_pressure_size = NONE /\ connected)
            => last'.emits = Emitted(last'.sd_event, last'.sd_payload)
    ]_vars

\* C2 witness: a droppable send_data met a queue over the limit and was
\* kept from the transport.
C2_Witness ==
  /\ last.op = "send_data" /\ last.sd_droppable /\ last.bp_rejected
  /\ back_pressure_size # NONE /\ qsize > back_pressure_size
  /\ last.emits = << >>

\* C3 as stated: a droppable send rejected by back pressure is dropped
\* silently, the call returns normally and raises nothing.
C3_SilentDrop ==
  last.bp_rejected => (last.result = "none" /\ last.exc = "none")

\* C3 amended: a droppable send rejected by back pressure emits nothing and
\* raises BackPressureException to its caller, out of send_data and out of
\* send_image alike.
C3_RejectionRaises ==
  last.bp_rejected =>
    /\ last.sd_droppable
    /\ last.emits = << >>
    /\ last.result = "raised" /\ last.exc = "BackPressureException"

\* C3 witness: send_image of a droppable non-keyframe was rejected.
C3_Witness ==
  /\ last.op = "send_image" /\ last.can_be_dropped /\ ~last.keyframe
  /\ last.bp_rejected /\ last.exc = "BackPressureException"

\* C4: an H.264 keyframe is handed to send_data as non-droppable even when
\* the caller passed can_be_dropped=true, so back pressure never drops it; a
\* non-keyframe keeps the caller's can_be_dropped.
C4_KeyframeNeverDropped ==
  (last.op = "send_image" /\ last.channel_type = "H264"
     /\ last.path = "encoded") =>
    /\ last.sd_called
    /\ last.keyframe =>
         (~last.sd_droppable /\ ~last.bp_rejected
          /\ last.exc # "BackPressureException")
    /\ ~last.keyframe => (last.sd_droppable = last.can_be_dropped)

\* C4 witness: a keyframe sent with can_be_dropped=true reached the
\* transport although the queue was over the limit.
C4_Witness ==
  /\ last.op = "send_image" /\ last.keyframe /\ last.can_be_dropped
  /\ back_pressure_size # NONE /\ qsize > back_pressure_size
  /\ last.emits = Emitted("cam1", "image")

\* C8 as stated: an H264EncoderError in send_image emits no envelope and is
\* raised to the caller below the ceiling (after re-initialisation) and at
\* or over it.
C8_EncoderErrorRaised ==
  (last.op = "send_image" /\ last.channel_type = "H264"
     /\ last.path = "encode_error") =>
    /\ last.emits = << >>
    /\ last.result = "raised" /\ last.exc = "H264EncoderError"

\* C8 amended: an H264EncoderError in send_image emits no envelope; with
\* init_count below recreate_h264_attempts_count the encoder is
\* re-initialised once and send_image returns normally, raising nothing; at
\* or over the ceiling the error is raised without re-initialisation.
C8_EncoderErrorHandling ==
  [][(CallStep /\ last'.op = "send_image" /\ last'.channel_type = "H264"
        /\ last'.path = "encode_error") =>
       LET key == KeyOf(last'.event)
           before == IF key \in DOMAIN encoders
                     THEN encoders[key].init_count ELSE InitialInitCount
       IN /\ last'.emits = << >> /\ ~last'.sd_called
          /\ key \in DOMAIN encoders'
          /\ before < recreate_count =>
               /\ last'.reinit = 1
               /\ encoders'[key].init_count = before + 1
               /\ last'.result = "none" /\ last'.exc = "none"
          /\ before >= recreate_count =>
               /\ last'.reinit = 0
               /\ encoders'[key].init_count = before
               /\ last'.result = "raised" /\ last'.exc = "H264EncoderError"
    ]_vars

\* C8 witness: an encoder error below the ceiling: re-initialised, returned.
C8_Witness ==
  /\ last.op = "send_image" /\ last.path = "encode_error"
  /\ last.reinit = 1 /\ last.result = "none"
  /\ encoders[KeyOf(last.event)].init_count = 1

\* The encoding_options that come with a geometry in FrameArgs.
OptionsWith(geometry) == CHOOSE o \in {"default", "custom"} :
                           <<geometry, o>> \in FrameArgs

\* C5: for every StreamKey the encoder is constructed once, by the first
\* send_image (H.264) call that gets to construct it, from that call's frame
\* geometry and encoding options; later calls reuse the instance, whatever
\* geometry and options they come with.  The same holds for the decoder
\* image_decode constructs from the first envelope's width and height.
C5_CodecCreatedOnce ==
  [][/\ \A k \in DOMAIN encoders :
          /\ k \in DOMAIN encoders'
          /\ encoders'[k].serial = encoders[k].serial
          /\ encoders'[k].geometry = encoders[k].geometry
          /\ encoders'[k].options = encoders[k].options
     /\ \A k \in DOMAIN decoders :
          /\ k \in DOMAIN decoders'
          /\ decoders'[k].serial = decoders[k].serial
          /\ decoders'[k].geometry = decoders[k].geometry
     /\ \A k \in DOMAIN encoders' : encoders'[k].serial = 1
     /\ \A k \in DOMAIN decoders' : decoders'[k].serial = 1
     /\ (CallStep /\ last'.op = "send_image" /\ last'.channel_type = "H264"
           /\ KeyOf(last'.event) \notin DOMAIN encoders
           /\ last'.path # "create_failed")
          => LET key == KeyOf(last'.event) IN
             /\ key \in DOMAIN encoders'
             /\ encoders'[key].geometry = last'.geometry
             /\ encoders'[key].options = OptionsWith(last'.geometry)
     /\ (CallStep /\ last'.op \in DecodeOps /\ last'.event \in H264Events
           /\ KeyOf(last'.event) \notin DOMAIN decoders
           /\ last'.path \notin {"no_frame", "no_size", "create_failed"})
          => LET key == KeyOf(last'.event) IN
             /\ key \in DOMAIN decoders'
             /\ decoders'[key].geometry = last'.geometry
    ]_vars

\* C5 witness: with a decoder registered too, a later send_image came with
\* another geometry than its stream's encoder was constructed with, and
\* was encoded by that encoder.
C5_Witness ==
  /\ last.op = "send_image" /\ last.path = "encoded"
  /\ last.channel_type = "H264"
  /\ encoders[KeyOf(last.event)].geometry # last.geometry
  /\ DOMAIN decoders # {}

\* The state right after a client-side send_data that ran in wait mode with
\* the transport not connected and the reconnection task absent or dead.
WaitAbandoned ==
  /\ sio_is_client /\ pc = "idle"
  /\ SendReached(last) /\ last.sd_wait /\ ~last.bp_rejected
  /\ ~connected /\ reconnect_task \in {"absent", "dead"}

\* C10 as stated: in that case the wait is abandoned and the transport's
\* emit is not called.
C10_AbandonedNotSent == WaitAbandoned => last.emits = << >>

\* C10 amended: in that case the wait is abandoned (no further sleep) and
\* the transport's emit is still called, once, with the payload.
C10_AbandonedStillEmits ==
  WaitAbandoned =>
    /\ last.result = "none"
    /\ last.emits = Emitted(last.sd_event, last.sd_payload)

\* C10 witness: the reconnection task died while send_data slept; the send
\* went on to emit while disconnected.
C10_Witness ==
  /\ WaitAbandoned /\ last.op = "send_data" /\ last.sleeps > 0
  /\ reconnect_task = "dead" /\ last.emits # << >>

====
